---- MODULE Spec2Model ----
(***************************************************************************)
(* A model of plaidml/core/core.h: the C++ wrapper that turns the C call   *)
(* boundary of the PlaidML runtime (error record out-parameter, raw        *)
(* pointers, explicit free functions) into owning value types: TensorShape,*)
(* Buffer and View.                                                        *)
(*                                                                         *)
(* The wrapper's code is in core.h. The runtime behind plaidml/core/ffi.h  *)
(* is not part of core.h; its behaviour (the Rt... definitions) follows    *)
(* the description of the boundary operations.                             *)
(***************************************************************************)
EXTENDS Integers, Sequences, FiniteSets, TLC

\* ------------------------------------------------------------------ bounds
MaxShapes == 1      \* shape handles the runtime hands out
MaxBufs == 1        \* buffer handles
MaxViews == 1       \* view handles
MaxUse == 2         \* owners of one shared handle
MaxRank == 3        \* rank of the shapes drawn as inputs
MaxDim == 2         \* extent of one dimension drawn as an input
MaxBytes == 1       \* byte size of an adopted buffer
MaxEqShapes == 2    \* shape handles when shapes are compared
MaxEqDim == 2       \* extents and strides of the shapes compared
MapViews == 2       \* view handles when two threads map one buffer
MapThreads == 2     \* threads inside copy_into / copy_from of one buffer
SharedThreads == 2  \* threads that own copies of one shared handle
NumThreads == 1     \* threads inside copy_into / copy_from, next to the callers of the other operations

Null == 0
Threads == 1..NumThreads
ShapeIds == 1..MaxShapes
BufIds == 1..MaxBufs
ViewIds == 1..MaxViews
Bytes == {0, 1}
Msgs == {"X", "Y"}

\* ------------------------------------------------------------- DType (80-95)
DTypes == {"INVALID", "INT8", "FLOAT32"}

\* the runtime's element width in bytes for a plaidml_datatype
RtDTypeBytes(dtype) ==
  CASE dtype = "INVALID" -> 0
    [] dtype = "INT8" -> 1
    [] dtype = "FLOAT32" -> 4

VARIABLES
  in,        \* the inputs a shape construction is given: [dtype, sizes, strides]
  shapeRt,   \* runtime: plaidml_shape objects, by handle
  bufRt,     \* runtime: plaidml_buffer objects, by handle
  viewRt,    \* runtime: plaidml_view objects, by handle
  strs,      \* runtime: the live plaidml_string objects
  badStr,    \* plaidml_string_ptr / plaidml_string_free was given an absent handle
  shapeUse,  \* use count of the shared_ptr<plaidml_shape> control block of a handle
  bufUse,    \* use count of the shared_ptr<plaidml_buffer> control block of a handle
  viewUse,   \* use count of the shared_ptr<plaidml_view> control block of a handle
  bufShape,  \* Buffer::shape_ of the Buffer values that hold a buffer handle
  pc,        \* where each thread is inside copy_into / copy_from
  cur,       \* the locals of the copy_into / copy_from a thread is inside
  last,      \* the wrapper operation that completed last, and its outcome
  fresh,     \* per buffer: the payload of the copy_from no other mapping disturbed
  aborted,   \* std::terminate was called
  held       \* per thread and pointer type: the shared_ptr values the thread owns

vars == <<in, shapeRt, bufRt, viewRt, strs, badStr, shapeUse, bufUse, viewUse,
          bufShape, pc, cur, last, fresh, aborted, held>>

\* ------------------------------------------------------------ small helpers
RECURSIVE Product(_)
Product(s) == IF s = <<>> THEN 1 ELSE Head(s) * Product(Tail(s))

RECURSIVE SumOver(_, _)
SumOver(S, f) ==
  IF S = {} THEN 0
  ELSE LET x == CHOOSE y \in S : TRUE IN f[x] + SumOver(S \ {x}, f)

SeqsUpTo(S, n) == UNION {[1..k -> S] : k \in 0..n}

\* ------------------------------------------------------- exceptions (8, 29)
NoExc == [type |-> "none", what |-> ""]
RuntimeError(what) == [type |-> "std::runtime_error", what |-> what]

\* --------------------------------------------- outcomes of one foreign call
\* what the runtime writes into plaidml_error: code 0, or a nonzero code and
\* a message
Ok == [code |-> 0, text |-> ""]
Fail(m) == [code |-> 1, text |-> m]
Outcomes == {Ok} \cup {Fail(m) : m \in Msgs}
MainOutcomes == {Ok, Fail("X")}

\* the runtime fills the error record: on a nonzero code it allocates the
\* message string and points err.msg at it
RtError(o, S) ==
  IF o.code # 0
  THEN [err |-> [code |-> o.code, msg |-> Len(S) + 1],
        strs |-> Append(S, [text |-> o.text])]
  ELSE [err |-> [code |-> 0, msg |-> Null], strs |-> S]

\* ------------------------------------------------------------ ffi (16-43)
\* plaidml_string_free: the string object is gone
RtStringFree(S, ptr) == [i \in 1..(Len(S) - 1) |-> IF i < ptr THEN S[i] ELSE S[i + 1]]

\* ffi::str that copies the text and forgets plaidml_string_free
FfiStrNoFree(ptr, S) ==
  IF ptr \notin DOMAIN S
  THEN [ret |-> "", strs |-> S, bad |-> TRUE]
  ELSE [ret |-> S[ptr].text, strs |-> S, bad |-> FALSE]

\* ffi::str: copy the text out (plaidml_string_ptr), then plaidml_string_free.
\* bad: the handle is absent or already released.
FfiStr(ptr, S) ==
  IF ptr \notin DOMAIN S
  THEN [ret |-> "", strs |-> S, bad |-> TRUE]
  ELSE [ret |-> S[ptr].text, strs |-> RtStringFree(S, ptr), bad |-> FALSE]

\* ffi::call<T> without the test of err.code: whatever the function returned
\* is passed on
FfiCallIgnoresError(o, ret, S) ==
  [threw |-> FALSE, exc |-> NoExc, ret |-> ret, strs |-> RtError(o, S).strs,
   bad |-> FALSE]

\* ffi::call<T>: the foreign function has run with outcome o and result ret
FfiCall(o, ret, S) ==
  LET f == RtError(o, S) IN
  IF f.err.code # 0
  THEN LET s == FfiStr(f.err.msg, f.strs) IN
       [threw |-> TRUE, exc |-> RuntimeError(s.ret), ret |-> <<>>,
        strs |-> s.strs, bad |-> s.bad]
  ELSE [threw |-> FALSE, exc |-> NoExc, ret |-> ret, strs |-> f.strs, bad |-> FALSE]

\* ffi::call_void
FfiCallVoid(o, S) ==
  LET f == RtError(o, S) IN
  IF f.err.code # 0
  THEN LET s == FfiStr(f.err.msg, f.strs) IN
       [threw |-> TRUE, exc |-> RuntimeError(s.ret), strs |-> s.strs, bad |-> s.bad]
  ELSE [threw |-> FALSE, exc |-> NoExc, strs |-> f.strs, bad |-> FALSE]

\* ------------------------------------------------ the runtime's shape objects
NoShape ==
  [alloc |-> FALSE, dtype |-> "INVALID", ndims |-> 0, sizes |-> <<>>,
   strides |-> <<>>, frees |-> 0]

\* plaidml_shape_alloc(dtype, ndims, sizes, strides): the runtime reads ndims
\* entries of each array (past the end of an array it reads whatever is there)
RtRead(arr, n) == [i \in 1..n |-> IF i \in DOMAIN arr THEN arr[i] ELSE 0]

RtShapeAlloc(a) ==
  [alloc |-> TRUE, dtype |-> a.dtype, ndims |-> a.ndims,
   sizes |-> RtRead(a.sizes, a.ndims), strides |-> RtRead(a.strides, a.ndims),
   frees |-> 0]

\* plaidml_shape_get_nbytes: element width times the number of elements
RtShapeNbytes(sh) == RtDTypeBytes(sh.dtype) * Product(sh.sizes)

\* the pointer the next successful allocation returns: an address never used,
\* or the address of a released object
ShapeFree(s) == ~shapeRt[s].alloc \/ shapeRt[s].frees > 0
NextShape ==
  IF \E s \in DOMAIN shapeRt : ShapeFree(s)
  THEN CHOOSE s \in DOMAIN shapeRt :
         ShapeFree(s) /\ \A r \in DOMAIN shapeRt : r < s => ~ShapeFree(r)
  ELSE Null

\* plaidml_shape_repr: the text of the element type, extents and strides, in a
\* new plaidml_string
RtShapeRepr(sh) == ToString(<<sh.dtype, sh.sizes, sh.strides>>)
RtShapeReprString(sh, S) == Append(S, [text |-> RtShapeRepr(sh)])

\* -------------------------------------- the runtime's buffers and views
NoBuf == [alloc |-> FALSE, origin |-> "none", size |-> 0, content |-> <<>>, frees |-> 0]
NoView ==
  [alloc |-> FALSE, buf |-> Null, mode |-> "none", opener |-> "none", size |-> 0,
   region |-> <<>>, dirty |-> FALSE, frees |-> 0]

Contents(n) == [1..n -> Bytes]

\* plaidml_buffer_alloc(device, nbytes): nbytes of memory, content unspecified
RtBufferAlloc(nbytes, c0) ==
  [alloc |-> TRUE, origin |-> "alloc", size |-> nbytes, content |-> c0, frees |-> 0]

\* a buffer the caller obtained from the runtime by other means
RtBufferForeign(nbytes, c0) ==
  [alloc |-> TRUE, origin |-> "adopt", size |-> nbytes, content |-> c0, frees |-> 0]

\* plaidml_buffer_mmap_current: the region starts as the buffer's content
RtMmapCurrent(b, opener) ==
  [alloc |-> TRUE, buf |-> b, mode |-> "current", opener |-> opener,
   size |-> bufRt[b].size, region |-> bufRt[b].content, dirty |-> FALSE, frees |-> 0]

\* plaidml_buffer_mmap_discard: the region starts with unspecified content r0
RtMmapDiscard(b, opener, r0) ==
  [alloc |-> TRUE, buf |-> b, mode |-> "discard", opener |-> opener,
   size |-> bufRt[b].size, region |-> r0, dirty |-> FALSE, frees |-> 0]

\* plaidml_view_writeback: the region becomes the buffer's content
RtWriteback(B, V, v) == [B EXCEPT ![V[v].buf].content = V[v].region]

\* plaidml_view_free on a view whose writes were not committed: the writes may
\* or may not reach the buffer (vis)
RtUnmap(B, V, v, vis) ==
  IF V[v].dirty /\ vis THEN [B EXCEPT ![V[v].buf].content = V[v].region] ELSE B

\* plaidml_shape_free / plaidml_buffer_free / plaidml_view_free: the object is
\* gone; the runtime counts the calls it got for the pointer (alloc stays as it
\* was: FALSE for a pointer the runtime never handed out)
RtFree(fn, rt, ptr) ==
  CASE fn = "plaidml_shape_free" ->
         [rt EXCEPT ![ptr] = [NoShape EXCEPT !.alloc = rt[ptr].alloc, !.frees = rt[ptr].frees + 1]]
    [] fn = "plaidml_buffer_free" ->
         [rt EXCEPT ![ptr] = [NoBuf EXCEPT !.alloc = rt[ptr].alloc, !.origin = rt[ptr].origin,
                                           !.frees = rt[ptr].frees + 1]]
    [] fn = "plaidml_view_free" ->
         [rt EXCEPT ![ptr] = [NoView EXCEPT !.alloc = rt[ptr].alloc, !.buf = rt[ptr].buf,
                                            !.mode = rt[ptr].mode,
                                            !.opener = rt[ptr].opener,
                                            !.frees = rt[ptr].frees + 1]]

\* ----------------------------------------------------- details (45-65)
\* a deleter that does not call the release function
DeleterNoRelease(fn, rt, ptr, o, S) ==
  [rt |-> rt, call |-> FfiCallVoid(Ok, S)]

\* Deleter<T>::operator()(ptr): ffi::call_void(fn, ptr). The release function
\* runs on ptr whatever it reports.
Deleter(fn, rt, ptr, o, S) ==
  [rt |-> RtFree(fn, rt, ptr), call |-> FfiCallVoid(o, S)]

\* make_plaidml_shape / make_plaidml_buffer / make_plaidml_view: a new control
\* block that owns ptr, one owner
MakeShared(use, ptr) == [use EXCEPT ![ptr] = 1]

\* copying a shared_ptr
SharedCopy(use, ptr) == [use EXCEPT ![ptr] = @ + 1]

\* destroying a shared_ptr: the owner that brings the use count to zero runs
\* the deleter on the pointer the control block was made with
SharedDrop(fn, use, rt, ptr, o, S) ==
  IF use[ptr] > 1
  THEN [use |-> [use EXCEPT ![ptr] = @ - 1], rt |-> rt, strs |-> S,
        threw |-> FALSE, exc |-> NoExc, bad |-> FALSE, freed |-> FALSE]
  ELSE LET d == Deleter(fn, rt, ptr, o, S) IN
       [use |-> [use EXCEPT ![ptr] = 0], rt |-> d.rt, strs |-> d.call.strs,
        threw |-> d.call.threw, exc |-> d.call.exc, bad |-> d.call.bad,
        freed |-> TRUE]

\* ------------------------------------------- the record of an operation
NoAlloc == [dtype |-> "INVALID", ndims |-> 0, sizes |-> <<>>, strides |-> <<>>]
NoIn == [dtype |-> "INVALID", sizes |-> <<>>, strides |-> <<>>]
NoOp ==
  [op |-> "none", in |-> NoIn, h |-> Null, args |-> <<>>, calls |-> <<>>,
   alloc |-> NoAlloc, nbytes |-> 0, data |-> <<>>, errs |-> <<>>,
   exc |-> NoExc, ret |-> <<>>]

\* copy_into and copy_from run step by step in a thread of their own; every other
\* operation is one step of some other thread of the application
Idle(t) == pc[t] = "idle" /\ ~aborted

\* ----------------------------------------------------- TensorShape (102-141)
\* TensorShape values the application holds for a shape handle: the owners of
\* the handle that are not the shape_ member of a Buffer value
ShapeVals(s) ==
  shapeUse[s] - SumOver({b \in BufIds : bufShape[b] = s}, bufUse)

\* the stride loop with the running product multiplied before it is stored
RECURSIVE StrideLoopMultipliesFirst(_, _, _, _)
StrideLoopMultipliesFirst(sizes, i, stride, strides) ==
  IF i < 1 THEN strides
  ELSE StrideLoopMultipliesFirst(sizes, i - 1, stride * sizes[i],
                                 [strides EXCEPT ![i] = stride * sizes[i]])

\* lines 110-115: the stride loop, i from sizes.size() - 1 down to 0
RECURSIVE StrideLoop(_, _, _, _)
StrideLoop(sizes, i, stride, strides) ==
  IF i < 1 THEN strides
  ELSE StrideLoop(sizes, i - 1, stride * sizes[i], [strides EXCEPT ![i] = stride])

\* a strides vector that is declared but never given its length
RowMajorStridesUnsized(sizes) == <<>>

RowMajorStrides(sizes) ==
  StrideLoop(sizes, Len(sizes), 1, [i \in 1..Len(sizes) |-> 0])

\* ptr_ = make_plaidml_shape(ffi::call<plaidml_shape*>(plaidml_shape_alloc, ...))
ShapeAllocAndWrap(op, inp, a, o) ==
  LET s == NextShape
      c == FfiCall(o, <<s>>, strs) IN
  /\ ~aborted
  /\ o.code = 0 => s # Null
  /\ shapeRt' = IF o.code # 0 THEN shapeRt ELSE [shapeRt EXCEPT ![s] = RtShapeAlloc(a)]
  /\ shapeUse' = IF c.threw THEN shapeUse ELSE MakeShared(shapeUse, c.ret[1])
  /\ strs' = c.strs
  /\ badStr' = (badStr \/ c.bad)
  /\ last' = [NoOp EXCEPT !.op = op, !.in = inp,
                          
                          !.calls = <<"plaidml_shape_alloc">>, !.alloc = a,
                          !.errs = IF o.code # 0 THEN <<o.text>> ELSE <<>>,
                          !.exc = c.exc, !.ret = c.ret]
  /\ UNCHANGED <<in, bufRt, viewRt, bufUse, viewUse, bufShape, pc, cur, fresh, aborted>>

\* TensorShape()
TensorShape0(o) ==
  ShapeAllocAndWrap("TensorShape()", NoIn,
                    [dtype |-> "INVALID", ndims |-> 0, sizes |-> <<>>, strides |-> <<>>], o)

\* TensorShape(dtype, sizes)
TensorShape2(dtype, sizes, o) ==
  ShapeAllocAndWrap("TensorShape(dtype,sizes)",
                    [dtype |-> dtype, sizes |-> sizes, strides |-> <<>>],
                    [dtype |-> dtype, ndims |-> Len(sizes), sizes |-> sizes,
                     strides |-> RowMajorStrides(sizes)], o)

\* a constructor that never compares the two lengths
RankMismatchNever(sizes, strides) == FALSE

RankMismatch(sizes, strides) == Len(sizes) # Len(strides)

\* TensorShape(dtype, sizes, strides)
TensorShape3(dtype, sizes, strides, o) ==
  IF RankMismatch(sizes, strides)
  THEN /\ ~aborted
       /\ o = Ok
       /\ last' = [NoOp EXCEPT !.op = "TensorShape(dtype,sizes,strides)",
                     !.in = [dtype |-> dtype, sizes |-> sizes, strides |-> strides],
                     !.exc = RuntimeError("Sizes and strides must have the same rank.")]
       /\ UNCHANGED <<in, shapeRt, bufRt, viewRt, strs, badStr, shapeUse, bufUse,
                      viewUse, bufShape, pc, cur, fresh, aborted>>
  ELSE ShapeAllocAndWrap("TensorShape(dtype,sizes,strides)",
                         [dtype |-> dtype, sizes |-> sizes, strides |-> strides],
                         [dtype |-> dtype, ndims |-> Len(sizes), sizes |-> sizes,
                          strides |-> strides], o)

\* the copy constructor of TensorShape (and TensorShape(const shared_ptr&))
ShapeCopy(s) ==
  /\ ~aborted
  /\ ShapeVals(s) > 0
  /\ shapeUse[s] < MaxUse
  /\ shapeUse' = SharedCopy(shapeUse, s)
  /\ last' = [NoOp EXCEPT !.op = "TensorShape(copy)"]
  /\ UNCHANGED <<in, shapeRt, bufRt, viewRt, strs, badStr, bufUse, viewUse,
                 bufShape, pc, cur, fresh, aborted>>

\* ~TensorShape: ptr_ is destroyed. A deleter that throws leaves a noexcept
\* destructor: std::terminate.
ShapeDrop(s, o) ==
  LET d == SharedDrop("plaidml_shape_free", shapeUse, shapeRt, s, o, strs) IN
  /\ ~aborted
  /\ ShapeVals(s) > 0
  /\ shapeUse[s] > 1 => o = Ok
  /\ shapeUse' = d.use
  /\ shapeRt' = d.rt
  /\ strs' = d.strs
  /\ badStr' = (badStr \/ d.bad)
  /\ aborted' = d.threw
  /\ last' = [NoOp EXCEPT !.op = "~TensorShape", !.calls = IF d.freed THEN <<"plaidml_shape_free">> ELSE <<>>,
                !.errs = IF o.code # 0 THEN <<o.text>> ELSE <<>>,
                !.exc = IF d.threw THEN d.exc ELSE NoExc]
  /\ UNCHANGED <<in, bufRt, viewRt, bufUse, viewUse, bufShape, pc, cur, fresh>>

\* the memory of a released buffer is not handed out again while a view maps it
BufFree(b) ==
  \/ ~bufRt[b].alloc
  \/ bufRt[b].frees > 0 /\ \A v \in DOMAIN viewRt : viewRt[v].buf = b => viewRt[v].frees > 0
NextBuf ==
  IF \E b \in BufIds : BufFree(b)
  THEN CHOOSE b \in BufIds : BufFree(b) /\ \A r \in BufIds : r < b => ~BufFree(r)
  ELSE Null

ViewFree(v) == ~viewRt[v].alloc \/ viewRt[v].frees > 0
NextView ==
  IF \E v \in DOMAIN viewRt : ViewFree(v)
  THEN CHOOSE v \in DOMAIN viewRt :
         ViewFree(v) /\ \A r \in DOMAIN viewRt : r < v => ~ViewFree(r)
  ELSE Null

\* TensorShape::ndims() (133)
ShapeNdims(s, o) ==
  LET c == FfiCall(o, <<shapeRt[s].ndims>>, strs) IN
  /\ ~aborted
  /\ ShapeVals(s) > 0
  /\ strs' = c.strs
  /\ badStr' = (badStr \/ c.bad)
  /\ last' = [NoOp EXCEPT !.op = "ndims", !.h = s,
                          !.calls = <<"plaidml_shape_get_ndims">>,
                          !.errs = IF o.code # 0 THEN <<o.text>> ELSE <<>>,
                          !.exc = c.exc, !.ret = c.ret]
  /\ UNCHANGED <<in, shapeRt, bufRt, viewRt, shapeUse, bufUse, viewUse, bufShape,
                 pc, cur, fresh, aborted>>

\* TensorShape::str() (135): ffi::str(ffi::call<plaidml_string*>(plaidml_shape_repr, ptr))
ShapeStr(s, o, S) ==
  LET c == FfiCall(o, <<Len(S) + 1>>,
                   IF o.code = 0 THEN RtShapeReprString(shapeRt[s], S) ELSE S) IN
  IF c.threw
  THEN [threw |-> TRUE, exc |-> c.exc, ret |-> "", strs |-> c.strs, bad |-> c.bad]
  ELSE LET f == FfiStr(c.ret[1], c.strs) IN
       [threw |-> FALSE, exc |-> NoExc, ret |-> f.ret, strs |-> f.strs, bad |-> f.bad]

\* str() of a TensorShape value the application holds
TensorShapeStr(s, o) ==
  LET r == ShapeStr(s, o, strs) IN
  /\ ~aborted
  /\ ShapeVals(s) > 0
  /\ strs' = r.strs
  /\ badStr' = (badStr \/ r.bad)
  /\ last' = [NoOp EXCEPT !.op = "str", !.h = s,
                          !.calls = <<"plaidml_shape_repr">>,
                          !.errs = IF o.code # 0 THEN <<o.text>> ELSE <<>>,
                          !.exc = r.exc,
                          !.ret = IF r.threw THEN <<>> ELSE <<r.ret>>]
  /\ UNCHANGED <<in, shapeRt, bufRt, viewRt, shapeUse, bufUse, viewUse, bufShape,
                 pc, cur, fresh, aborted>>

\* an operator== that compares the handles instead of the texts
ShapeEqByPointer(s1, s2, text1, text2) == s1 = s2

\* operator== (136): str() == rhs.str()
ShapeEqValue(s1, s2, text1, text2) == text1 = text2

\* operator== on two TensorShape values: the two str() calls run in either
\* order (first names the operand whose str() runs first, with outcome o1)
ShapeEq(s1, s2, first, o1, o2) ==
  LET a == IF first = "lhs" THEN s1 ELSE s2
      b == IF first = "lhs" THEN s2 ELSE s1
      r1 == ShapeStr(a, o1, strs)
      r2 == ShapeStr(b, o2, r1.strs)
      threw == r1.threw \/ r2.threw
      lhs == IF first = "lhs" THEN r1.ret ELSE r2.ret
      rhs == IF first = "lhs" THEN r2.ret ELSE r1.ret IN
  /\ ~aborted
  /\ ShapeVals(s1) > 0
  /\ ShapeVals(s2) > 0
  /\ o1.code # 0 => o2 = Ok
  /\ strs' = IF r1.threw THEN r1.strs ELSE r2.strs
  /\ badStr' = (badStr \/ r1.bad \/ (~r1.threw /\ r2.bad))
  /\ last' = [NoOp EXCEPT !.op = "operator==", !.args = <<s1, s2>>,
                !.calls = IF r1.threw THEN <<"plaidml_shape_repr">>
                          ELSE <<"plaidml_shape_repr", "plaidml_shape_repr">>,
                !.errs = IF o1.code # 0 THEN <<o1.text>>
                         ELSE IF o2.code # 0 THEN <<o2.text>> ELSE <<>>,
                !.exc = IF r1.threw THEN r1.exc ELSE r2.exc,
                !.ret = IF threw THEN <<>> ELSE <<ShapeEqValue(s1, s2, lhs, rhs)>>]
  /\ UNCHANGED <<in, shapeRt, bufRt, viewRt, shapeUse, bufUse, viewUse, bufShape,
                 pc, cur, fresh, aborted>>

\* per buffer, what is known of its content from the copies made so far:
\* "writing": a copy_from of `data` is running and no other view of the buffer
\* has been live since it began; "valid": that copy_from returned, and no view
\* other than those of copy_into has been opened since
NoFresh == [st |-> "none", data |-> <<>>]
NoCur ==
  [op |-> "none", buf |-> Null, view |-> Null, ptr |-> Null, src |-> <<>>,
   dst |-> <<>>, calls |-> <<>>]

\* threads inside copy_into / copy_from of a Buffer value that holds b
Busy(b) == {t \in DOMAIN pc : pc[t] # "idle" /\ cur[t].buf = b}
\* View values the application holds for a view handle: the owners that are not
\* the local `view` of a copy_into / copy_from in progress
ViewVals(v) ==
  viewUse[v] - Cardinality({t \in DOMAIN pc : pc[t] # "idle" /\ cur[t].view = v})
LiveViews(b) ==
  {v \in DOMAIN viewRt : viewRt[v].alloc /\ viewRt[v].frees = 0 /\ viewRt[v].buf = b}

\* ----------------------------------------------------------- Buffer (176-213)
\* nbytes() that asks the runtime for the rank instead of the byte size
ShapeNbytesAsNdims(s, o, S) == FfiCall(o, <<shapeRt[s].ndims>>, S)

\* TensorShape::nbytes() (134)
ShapeNbytes(s, o, S) == FfiCall(o, <<RtShapeNbytes(shapeRt[s])>>, S)

\* Buffer(device, shape): ptr_(make_plaidml_buffer(call(plaidml_buffer_alloc,
\* device, shape.nbytes()))), then shape_(shape)
BufferAlloc(s, o1, o2) ==
  LET b == NextBuf
      n == ShapeNbytes(s, o1, strs)
      nb == IF n.threw THEN 0 ELSE n.ret[1]
      a == FfiCall(o2, <<b>>, n.strs)
      threw == n.threw \/ a.threw IN
  /\ ~aborted
  /\ ShapeVals(s) > 0
  /\ shapeUse[s] < MaxUse
  /\ (o1.code = 0 /\ o2.code = 0) => b # Null
  /\ o1.code # 0 => o2 = Ok
  /\ IF o1.code # 0 \/ o2.code # 0 THEN bufRt' = bufRt
     ELSE \E c0 \in Contents(nb) : bufRt' = [bufRt EXCEPT ![b] = RtBufferAlloc(nb, c0)]
  /\ bufUse' = IF threw THEN bufUse ELSE MakeShared(bufUse, a.ret[1])
  /\ bufShape' = IF threw THEN bufShape ELSE [bufShape EXCEPT ![a.ret[1]] = s]
  /\ shapeUse' = IF threw THEN shapeUse ELSE SharedCopy(shapeUse, s)
  /\ fresh' = IF threw THEN fresh ELSE [fresh EXCEPT ![b] = NoFresh]
  /\ strs' = IF n.threw THEN n.strs ELSE a.strs
  /\ badStr' = (badStr \/ n.bad \/ (~n.threw /\ a.bad))
  /\ last' = [NoOp EXCEPT !.op = "Buffer(device,shape)", !.h = s,
                !.calls = IF n.threw THEN <<"plaidml_shape_get_nbytes">>
                          ELSE <<"plaidml_shape_get_nbytes", "plaidml_buffer_alloc">>,
                !.nbytes = nb,
                !.errs = IF o1.code # 0 THEN <<o1.text>>
                         ELSE IF o2.code # 0 THEN <<o2.text>> ELSE <<>>,
                !.exc = IF n.threw THEN n.exc ELSE a.exc]
  /\ UNCHANGED <<in, shapeRt, viewRt, viewUse, pc, cur, aborted>>

\* Buffer(plaidml_buffer* ptr, shape): ptr is a buffer of nb bytes the caller
\* got from the runtime; nothing compares nb with the shape
BufferAdopt(s, nb) ==
  LET b == NextBuf IN
  /\ ~aborted
  /\ ShapeVals(s) > 0
  /\ shapeUse[s] < MaxUse
  /\ b # Null
  /\ \E c0 \in Contents(nb) : bufRt' = [bufRt EXCEPT ![b] = RtBufferForeign(nb, c0)]
  /\ bufUse' = MakeShared(bufUse, b)
  /\ bufShape' = [bufShape EXCEPT ![b] = s]
  /\ shapeUse' = SharedCopy(shapeUse, s)
  /\ fresh' = [fresh EXCEPT ![b] = NoFresh]
  /\ last' = [NoOp EXCEPT !.op = "Buffer(ptr,shape)", 
                          !.nbytes = nb]
  /\ UNCHANGED <<in, shapeRt, viewRt, strs, badStr, viewUse, pc, cur, aborted>>

\* the copy constructor of Buffer: ptr_ and shape_ are copied
BufferCopy(b) ==
  /\ ~aborted
  /\ bufUse[b] > 0
  /\ bufUse[b] < MaxUse
  /\ shapeUse[bufShape[b]] < MaxUse
  /\ bufUse' = SharedCopy(bufUse, b)
  /\ shapeUse' = SharedCopy(shapeUse, bufShape[b])
  /\ last' = [NoOp EXCEPT !.op = "Buffer(copy)"]
  /\ UNCHANGED <<in, shapeRt, bufRt, viewRt, strs, badStr, viewUse, bufShape,
                 pc, cur, fresh, aborted>>

\* ~Buffer: shape_ is destroyed, then ptr_ (the reverse of their declaration).
\* A Buffer value a thread is inside a method of is not destroyed.
BufferDrop(b, o1, o2) ==
  LET s == bufShape[b]
      d1 == SharedDrop("plaidml_shape_free", shapeUse, shapeRt, s, o1, strs)
      d2 == SharedDrop("plaidml_buffer_free", bufUse, bufRt, b, o2, d1.strs) IN
  /\ ~aborted
  /\ bufUse[b] > (IF Busy(b) = {} THEN 0 ELSE 1)
  /\ IF shapeUse[s] > 1 THEN o1 = Ok ELSE TRUE
  /\ IF bufUse[b] > 1 \/ o1.code # 0 THEN o2 = Ok ELSE TRUE
  /\ shapeUse' = d1.use
  /\ shapeRt' = d1.rt
  /\ bufUse' = IF d1.threw THEN bufUse ELSE d2.use
  /\ bufRt' = IF d1.threw THEN bufRt ELSE d2.rt
  /\ strs' = IF d1.threw THEN d1.strs ELSE d2.strs
  /\ badStr' = (badStr \/ d1.bad \/ (~d1.threw /\ d2.bad))
  /\ aborted' = (d1.threw \/ d2.threw)
  /\ last' = [NoOp EXCEPT !.op = "~Buffer", !.calls = (IF d1.freed THEN <<"plaidml_shape_free">> ELSE <<>>)
                          \o (IF ~d1.threw /\ d2.freed THEN <<"plaidml_buffer_free">>
                              ELSE <<>>),
                !.errs = IF o1.code # 0 THEN <<o1.text>>
                         ELSE IF o2.code # 0 THEN <<o2.text>> ELSE <<>>,
                !.exc = IF d1.threw THEN d1.exc ELSE d2.exc]
  /\ UNCHANGED <<in, viewRt, viewUse, bufShape, pc, cur, fresh>>

\* a mapping that refuses a buffer that has a live view
MapAndWrapExclusive(o, rec) ==
  LET v == NextView
      c == FfiCall(o, <<v>>, strs) IN
  IF LiveViews(rec.buf) # {}
  THEN [threw |-> TRUE, exc |-> RuntimeError("The buffer is already mapped."),
        view |-> Null, rt |-> viewRt, use |-> viewUse, strs |-> strs, bad |-> FALSE]
  ELSE [threw |-> c.threw, exc |-> c.exc, view |-> IF c.threw THEN Null ELSE c.ret[1],
        rt |-> IF o.code # 0 THEN viewRt ELSE [viewRt EXCEPT ![v] = rec],
        use |-> IF c.threw THEN viewUse ELSE MakeShared(viewUse, c.ret[1]),
        strs |-> c.strs, bad |-> c.bad]

\* plaidml_buffer_mmap_current / plaidml_buffer_mmap_discard through ffi::call,
\* and make_plaidml_view on the pointer returned
MapAndWrap(o, rec) ==
  LET v == NextView
      c == FfiCall(o, <<v>>, strs) IN
  [threw |-> c.threw, exc |-> c.exc, view |-> IF c.threw THEN Null ELSE c.ret[1],
   rt |-> IF o.code # 0 THEN viewRt ELSE [viewRt EXCEPT ![v] = rec],
   use |-> IF c.threw THEN viewUse ELSE MakeShared(viewUse, c.ret[1]),
   strs |-> c.strs, bad |-> c.bad]

CanMap(o) == o.code = 0 => NextView # Null

\* the View a Buffer method returns to the application
MmapReturn(op, fn, b, o, rec) ==
  LET m == MapAndWrap(o, rec) IN
  /\ viewRt' = m.rt
  /\ viewUse' = m.use
  /\ strs' = m.strs
  /\ badStr' = (badStr \/ m.bad)
  /\ fresh' = IF m.threw THEN fresh ELSE [fresh EXCEPT ![b] = NoFresh]
  /\ last' = [NoOp EXCEPT !.op = op, !.calls = <<fn>>,
                          !.errs = IF o.code # 0 THEN <<o.text>> ELSE <<>>,
                          !.exc = m.exc]
  /\ UNCHANGED <<in, shapeRt, bufRt, shapeUse, bufUse, bufShape, pc, cur, aborted>>

\* Buffer::mmap_current
MmapCurrent(b, o) ==
  /\ ~aborted
  /\ bufUse[b] > 0
  /\ CanMap(o)
  /\ MmapReturn("mmap_current", "plaidml_buffer_mmap_current", b, o,
                RtMmapCurrent(b, "app"))

\* Buffer::mmap_discard
MmapDiscard(b, o) ==
  /\ ~aborted
  /\ bufUse[b] > 0
  /\ CanMap(o)
  /\ \E r0 \in Contents(bufRt[b].size) :
       MmapReturn("mmap_discard", "plaidml_buffer_mmap_discard", b, o,
                  RtMmapDiscard(b, "app", r0))

\* --------------------------------------------------------------- View (148-169)
\* a View whose destruction releases nothing
ViewReleaseLeak(v, o, vis, S) ==
  [use |-> viewUse, rt |-> viewRt, strs |-> S, threw |-> FALSE, exc |-> NoExc,
   bad |-> FALSE, freed |-> FALSE, buf |-> bufRt]

\* ~View: ptr_ is destroyed; the last owner runs plaidml_view_free
ViewRelease(v, o, vis, S) ==
  LET d == SharedDrop("plaidml_view_free", viewUse, viewRt, v, o, S) IN
  [use |-> d.use, rt |-> d.rt, strs |-> d.strs, threw |-> d.threw, exc |-> d.exc,
   bad |-> d.bad, freed |-> d.freed,
   buf |-> IF d.freed THEN RtUnmap(bufRt, viewRt, v, vis) ELSE bufRt]

\* the outcome and the visibility of uncommitted writes are choices only when
\* plaidml_view_free runs
ReleaseChoice(v, o, vis) ==
  /\ viewUse[v] > 1 => o = Ok /\ ~vis
  /\ ~viewRt[v].dirty => ~vis

\* the copy constructor of View
ViewCopy(v) ==
  /\ ~aborted
  /\ ViewVals(v) > 0
  /\ viewUse[v] < MaxUse
  /\ viewUse' = SharedCopy(viewUse, v)
  /\ last' = [NoOp EXCEPT !.op = "View(copy)"]
  /\ UNCHANGED <<in, shapeRt, bufRt, viewRt, strs, badStr, shapeUse, bufUse,
                 bufShape, pc, cur, fresh, aborted>>

\* ~View of a View value the application holds
ViewDrop(v, o, vis) ==
  LET r == ViewRelease(v, o, vis, strs) IN
  /\ ~aborted
  /\ ViewVals(v) > 0
  /\ ReleaseChoice(v, o, vis)
  /\ viewUse' = r.use
  /\ viewRt' = r.rt
  /\ bufRt' = r.buf
  /\ strs' = r.strs
  /\ badStr' = (badStr \/ r.bad)
  /\ aborted' = r.threw
  /\ last' = [NoOp EXCEPT !.op = "~View", !.calls = IF r.freed THEN <<"plaidml_view_free">> ELSE <<>>,
                !.errs = IF o.code # 0 THEN <<o.text>> ELSE <<>>,
                !.exc = r.exc]
  /\ UNCHANGED <<in, shapeRt, shapeUse, bufUse, bufShape, pc, cur, fresh>>

\* View::data, View::size and View::writeback on a View value the application
\* holds
ViewCall(op, fn, v, o, ret) ==
  LET c == FfiCall(o, ret, strs) IN
  /\ ~aborted
  /\ ViewVals(v) > 0
  /\ strs' = c.strs
  /\ badStr' = (badStr \/ c.bad)
  /\ last' = [NoOp EXCEPT !.op = op, !.h = v, !.calls = <<fn>>,
                          !.errs = IF o.code # 0 THEN <<o.text>> ELSE <<>>,
                          !.exc = c.exc, !.ret = c.ret]
  /\ UNCHANGED <<in, shapeRt, bufRt, viewRt, shapeUse, bufUse, viewUse, bufShape, pc, cur,
                 fresh, aborted>>

ViewData(v, o) ==
  ViewCall("data", "plaidml_view_data", v, o, viewRt[v].region)

ViewSize(v, o) ==
  ViewCall("size", "plaidml_view_size", v, o, <<viewRt[v].size>>)

ViewWriteback(v, o) ==
  LET c == FfiCallVoid(o, strs) IN
  /\ ~aborted
  /\ ViewVals(v) > 0
  /\ strs' = c.strs
  /\ badStr' = (badStr \/ c.bad)
  /\ bufRt' = IF c.threw THEN bufRt ELSE RtWriteback(bufRt, viewRt, v)
  /\ last' = [NoOp EXCEPT !.op = "writeback", !.calls = <<"plaidml_view_writeback">>,
                          !.errs = IF o.code # 0 THEN <<o.text>> ELSE <<>>,
                          !.exc = c.exc]
  /\ UNCHANGED <<in, shapeRt, viewRt, shapeUse, bufUse, viewUse, bufShape, pc, cur,
                 fresh, aborted>>

\* ------------------------- shared_ptr values owned by several threads (53-63)
\* the three pointer types make_plaidml_* wrap, their control blocks' use
\* counts, their runtime objects and their release functions
PtrTypes == {"plaidml_shape", "plaidml_buffer", "plaidml_view"}
PtrUse(k) ==
  CASE k = "plaidml_shape" -> shapeUse
    [] k = "plaidml_buffer" -> bufUse
    [] k = "plaidml_view" -> viewUse
PtrRt(k) ==
  CASE k = "plaidml_shape" -> shapeRt
    [] k = "plaidml_buffer" -> bufRt
    [] k = "plaidml_view" -> viewRt
PtrFree(k) ==
  CASE k = "plaidml_shape" -> "plaidml_shape_free"
    [] k = "plaidml_buffer" -> "plaidml_buffer_free"
    [] k = "plaidml_view" -> "plaidml_view_free"

\* the use count of pointer type k becomes use
SetUse(k, use) ==
  /\ shapeUse' = IF k = "plaidml_shape" THEN use ELSE shapeUse
  /\ bufUse' = IF k = "plaidml_buffer" THEN use ELSE bufUse
  /\ viewUse' = IF k = "plaidml_view" THEN use ELSE viewUse

\* the thread that constructs the objects; the other threads get copies
Creator == CHOOSE t \in DOMAIN pc : \A u \in DOMAIN pc : t <= u

Gets(t, k, h) == held' = [held EXCEPT ![t][k][h] = @ + 1]

\* thread t copies a shared_ptr it owns; the copy goes to thread u. The use
\* count is incremented atomically.
ThreadCopy(t, u, k, h) ==
  /\ ~aborted
  /\ pc[t] = "idle"
  /\ held[t][k][h] > 0
  /\ PtrUse(k)[h] < MaxUse
  /\ SetUse(k, SharedCopy(PtrUse(k), h))
  /\ Gets(u, k, h)
  /\ last' = [NoOp EXCEPT !.op = "shared_ptr(copy)", !.h = h, !.args = <<t, u>>]
  /\ UNCHANGED <<in, shapeRt, bufRt, viewRt, strs, badStr, bufShape, pc, cur, fresh,
                 aborted>>

\* the decrement of the use count in ~shared_ptr: atomic, and it tells the
\* thread whether it was the last owner
SharedRelease(use, ptr) ==
  [use |-> [use EXCEPT ![ptr] = @ - 1], lastOwner |-> use[ptr] = 1]

\* a decrement made of a load and a later store
ThreadReleaseRacy(t, k, h) ==
  /\ ~aborted
  /\ \/ /\ pc[t] = "idle"
        /\ held[t][k][h] > 0
        /\ pc' = [pc EXCEPT ![t] = "loaded"]
        /\ cur' = [cur EXCEPT ![t] = [NoCur EXCEPT !.op = k, !.ptr = h,
                                                  !.dst = <<PtrUse(k)[h]>>]]
        /\ UNCHANGED <<shapeUse, bufUse, viewUse, held>>
     \/ /\ pc[t] = "loaded"
        /\ cur[t].op = k
        /\ cur[t].ptr = h
        /\ SetUse(k, [PtrUse(k) EXCEPT ![h] = cur[t].dst[1] - 1])
        /\ held' = [held EXCEPT ![t][k][h] = @ - 1]
        /\ pc' = [pc EXCEPT ![t] = IF cur[t].dst[1] = 1 THEN "deleter" ELSE "idle"]
        /\ cur' = [cur EXCEPT ![t] = IF cur[t].dst[1] = 1
                                     THEN [NoCur EXCEPT !.op = k, !.ptr = h]
                                     ELSE NoCur]
  /\ UNCHANGED <<in, shapeRt, bufRt, viewRt, strs, badStr, bufShape, last, fresh,
                 aborted>>

\* thread t destroys a shared_ptr it owns: the use count is decremented; the
\* thread that was the last owner goes on to run the deleter
ThreadRelease(t, k, h) ==
  LET r == SharedRelease(PtrUse(k), h) IN
  /\ ~aborted
  /\ pc[t] = "idle"
  /\ held[t][k][h] > 0
  /\ SetUse(k, r.use)
  /\ held' = [held EXCEPT ![t][k][h] = @ - 1]
  /\ pc' = [pc EXCEPT ![t] = IF r.lastOwner THEN "deleter" ELSE "idle"]
  /\ cur' = [cur EXCEPT ![t] = IF r.lastOwner THEN [NoCur EXCEPT !.op = k, !.ptr = h]
                                ELSE NoCur]
  /\ UNCHANGED <<in, shapeRt, bufRt, viewRt, strs, badStr, bufShape, last, fresh,
                 aborted>>

\* the last owner runs Deleter::operator() on the pointer; a deleter that
\* throws is std::terminate
ThreadDeleter(t, o) ==
  LET k == cur[t].op
      h == cur[t].ptr
      d == Deleter(PtrFree(k), PtrRt(k), h, o, strs) IN
  /\ ~aborted
  /\ pc[t] = "deleter"
  /\ shapeRt' = IF k = "plaidml_shape" THEN d.rt ELSE shapeRt
  /\ bufRt' = IF k = "plaidml_buffer" THEN d.rt
              ELSE IF k = "plaidml_view" THEN RtUnmap(bufRt, viewRt, h, FALSE)
              ELSE bufRt
  /\ viewRt' = IF k = "plaidml_view" THEN d.rt ELSE viewRt
  /\ strs' = d.call.strs
  /\ badStr' = (badStr \/ d.call.bad)
  /\ aborted' = d.call.threw
  /\ pc' = [pc EXCEPT ![t] = "idle"]
  /\ cur' = [cur EXCEPT ![t] = NoCur]
  /\ last' = [NoOp EXCEPT !.op = "Deleter", !.h = h, !.args = <<t>>,
                          !.calls = <<PtrFree(k)>>,
                          !.errs = IF o.code # 0 THEN <<o.text>> ELSE <<>>,
                          !.exc = d.call.exc]
  /\ UNCHANGED <<in, shapeUse, bufUse, viewUse, bufShape, fresh, held>>

\* ------------------------------------ Buffer::copy_into / copy_from (199-208)
\* auto view = mmap_current();
CopyIntoBegin(t, b, o) ==
  LET m == MapAndWrap(o, RtMmapCurrent(b, "copy_into")) IN
  /\ Idle(t)
  /\ bufUse[b] > 0
  /\ CanMap(o)
  /\ viewRt' = m.rt
  /\ viewUse' = m.use
  /\ strs' = m.strs
  /\ badStr' = (badStr \/ m.bad)
  /\ IF m.threw
     THEN /\ last' = [NoOp EXCEPT !.op = "copy_into", !.h = b, !.calls = <<"plaidml_buffer_mmap_current">>,
                        !.errs = IF o.code # 0 THEN <<o.text>> ELSE <<>>,
                        !.exc = m.exc]
          /\ UNCHANGED <<pc, cur>>
     ELSE /\ pc' = [pc EXCEPT ![t] = "mapped"]
          /\ cur' = [cur EXCEPT ![t] =
                       [NoCur EXCEPT !.op = "copy_into", !.buf = b, !.view = m.view,
                                     !.calls = <<"plaidml_buffer_mmap_current">>]]
          /\ last' = last
  /\ fresh' = IF ~m.threw /\ fresh[b].st = "writing" THEN [fresh EXCEPT ![b] = NoFresh]
              ELSE fresh
  /\ UNCHANGED <<in, shapeRt, bufRt, shapeUse, bufUse, bufShape, aborted>>

\* auto view = mmap_discard(); src points at as many bytes as the buffer has
CopyFromBegin(t, b, o) ==
  /\ Idle(t)
  /\ bufUse[b] > 0
  /\ CanMap(o)
  /\ \E P \in Contents(bufRt[b].size), r0 \in Contents(bufRt[b].size) :
       LET m == MapAndWrap(o, RtMmapDiscard(b, "copy_from", r0)) IN
       /\ viewRt' = m.rt
       /\ viewUse' = m.use
       /\ strs' = m.strs
       /\ badStr' = (badStr \/ m.bad)
       /\ IF m.threw
          THEN /\ last' = [NoOp EXCEPT !.op = "copy_from", !.h = b,
                             !.calls = <<"plaidml_buffer_mmap_discard">>,
                             !.errs = IF o.code # 0 THEN <<o.text>> ELSE <<>>,
                             !.exc = m.exc]
               /\ UNCHANGED <<pc, cur, fresh>>
          ELSE /\ pc' = [pc EXCEPT ![t] = "mapped"]
               /\ cur' = [cur EXCEPT ![t] =
                            [NoCur EXCEPT !.op = "copy_from", !.buf = b, !.view = m.view,
                                          !.src = P,
                                          !.calls = <<"plaidml_buffer_mmap_discard">>]]
               /\ fresh' = [fresh EXCEPT ![b] =
                              IF LiveViews(b) = {} THEN [st |-> "writing", data |-> P]
                              ELSE NoFresh]
               /\ last' = last
  /\ UNCHANGED <<in, shapeRt, bufRt, shapeUse, bufUse, bufShape, aborted>>

\* the last of the calls fns on the local view threw (outcome o): the exception leaves the
\* method, and unwinding destroys `view` (plaidml_view_free with outcome o2).
\* A second exception during unwinding is std::terminate.
CopyUnwind(t, fns, o, o2, vis) ==
  LET v == cur[t].view
      c == FfiCallVoid(o, strs)
      r == ViewRelease(v, o2, vis, c.strs) IN
  /\ ReleaseChoice(v, o2, vis)
  /\ viewUse' = r.use
  /\ viewRt' = r.rt
  /\ bufRt' = r.buf
  /\ strs' = r.strs
  /\ badStr' = (badStr \/ c.bad \/ r.bad)
  /\ aborted' = r.threw
  /\ pc' = [pc EXCEPT ![t] = "idle"]
  /\ cur' = [cur EXCEPT ![t] = NoCur]
  /\ last' = [NoOp EXCEPT !.op = cur[t].op, !.h = cur[t].buf, !.data = cur[t].src,
                !.calls = cur[t].calls \o fns \o <<"plaidml_view_free">>,
                !.errs = <<o.text>> \o (IF o2.code # 0 THEN <<o2.text>> ELSE <<>>),
                !.exc = c.exc]
  /\ fresh' = IF cur[t].op = "copy_from" /\ fresh[cur[t].buf].st = "writing"
              THEN [fresh EXCEPT ![cur[t].buf] = NoFresh]
              ELSE fresh
  /\ UNCHANGED <<in, shapeRt, shapeUse, bufUse, bufShape>>

\* memcpy that stops one byte short
MemcpyShort(from, n) == [i \in 1..n |-> IF i = n THEN 0 ELSE from[i]]

\* memcpy(to, from, n): the n bytes written at `to`
Memcpy(from, n) == [i \in 1..n |-> from[i]]

\* copy_into with the arguments of its memcpy exchanged: the bytes go from the
\* caller's memory into the view
CopyBodyWritesView(t, first, o1, o2, o3, vis) ==
  LET v == cur[t].view
      n == viewRt[v].size
      second == IF first = "plaidml_view_data" THEN "plaidml_view_size"
                ELSE "plaidml_view_data" IN
  /\ ~aborted
  /\ pc[t] = "mapped"
  /\ IF o1.code # 0
     THEN o2 = Ok /\ CopyUnwind(t, <<first>>, o1, o3, vis)
     ELSE IF o2.code # 0
     THEN CopyUnwind(t, <<first, second>>, o2, o3, vis)
     ELSE /\ o3 = Ok
          /\ ~vis
          /\ pc' = [pc EXCEPT ![t] = "copied"]
          /\ IF cur[t].op = "copy_into"
             THEN /\ cur' = [cur EXCEPT ![t].calls = @ \o <<first, second, "memcpy">>]
                  /\ viewRt' = [viewRt EXCEPT
                                  ![v].region = [i \in 1..n |-> 1 - viewRt[v].region[i]],
                                  ![v].dirty = TRUE]
             ELSE /\ cur' = [cur EXCEPT ![t].calls = @ \o <<first, second, "memcpy">>]
                  /\ viewRt' = [viewRt EXCEPT
                                  ![v].region = Memcpy(cur[t].src, n),
                                  ![v].dirty = TRUE]
          /\ UNCHANGED <<in, shapeRt, bufRt, strs, badStr, shapeUse, bufUse, viewUse,
                         bufShape, last, fresh, aborted>>

\* memcpy(dst, view.data(), view.size()) / memcpy(view.data(), src, view.size()):
\* view.data() and view.size() run in either order (first names the one that
\* runs first, with outcome o1; the other has outcome o2), then the bytes are
\* copied. None of the three touches what another thread can see.
CopyBody(t, first, o1, o2, o3, vis) ==
  LET v == cur[t].view
      n == viewRt[v].size
      second == IF first = "plaidml_view_data" THEN "plaidml_view_size"
                ELSE "plaidml_view_data" IN
  /\ ~aborted
  /\ pc[t] = "mapped"
  /\ IF o1.code # 0
     THEN o2 = Ok /\ CopyUnwind(t, <<first>>, o1, o3, vis)
     ELSE IF o2.code # 0
     THEN CopyUnwind(t, <<first, second>>, o2, o3, vis)
     ELSE /\ o3 = Ok
          /\ ~vis
          /\ pc' = [pc EXCEPT ![t] = "copied"]
          /\ IF cur[t].op = "copy_into"
             THEN /\ cur' = [cur EXCEPT ![t].dst = Memcpy(viewRt[v].region, n),
                                        ![t].calls = @ \o <<first, second, "memcpy">>]
                  /\ viewRt' = viewRt
             ELSE /\ cur' = [cur EXCEPT ![t].calls = @ \o <<first, second, "memcpy">>]
                  /\ viewRt' = [viewRt EXCEPT
                                  ![v].region = Memcpy(cur[t].src, n),
                                  ![v].dirty = TRUE]
          /\ UNCHANGED <<in, shapeRt, bufRt, strs, badStr, shapeUse, bufUse, viewUse,
                         bufShape, last, fresh, aborted>>

\* copy_from without its view.writeback()
CopyWritebackSkipped(t, o, o2, vis) ==
  /\ ~aborted
  /\ pc[t] = "copied"
  /\ cur[t].op = "copy_from"
  /\ o = Ok
  /\ o2 = Ok
  /\ ~vis
  /\ pc' = [pc EXCEPT ![t] = "committed"]
  /\ UNCHANGED <<in, shapeRt, bufRt, viewRt, strs, badStr, shapeUse, bufUse, viewUse,
                 bufShape, cur, last, fresh, aborted>>

\* view.writeback(); of copy_from
CopyWriteback(t, o, o2, vis) ==
  LET v == cur[t].view IN
  /\ ~aborted
  /\ pc[t] = "copied"
  /\ cur[t].op = "copy_from"
  /\ IF o.code # 0
     THEN CopyUnwind(t, <<"plaidml_view_writeback">>, o, o2, vis)
     ELSE /\ o2 = Ok
          /\ ~vis
          /\ bufRt' = RtWriteback(bufRt, viewRt, v)
          /\ viewRt' = [viewRt EXCEPT ![v].dirty = FALSE]
          /\ pc' = [pc EXCEPT ![t] = "committed"]
          /\ cur' = [cur EXCEPT ![t].calls = Append(@, "plaidml_view_writeback")]
          /\ UNCHANGED <<in, shapeRt, strs, badStr, shapeUse, bufUse, viewUse,
                         bufShape, last, fresh, aborted>>

\* the closing brace: `view` is destroyed and the method returns
CopyEnd(t, o, vis) ==
  LET v == cur[t].view
      b == cur[t].buf
      r == ViewRelease(v, o, vis, strs) IN
  /\ ~aborted
  /\ \/ pc[t] = "copied" /\ cur[t].op = "copy_into"
     \/ pc[t] = "committed" /\ cur[t].op = "copy_from"
  /\ ReleaseChoice(v, o, vis)
  /\ viewUse' = r.use
  /\ viewRt' = r.rt
  /\ bufRt' = r.buf
  /\ strs' = r.strs
  /\ badStr' = (badStr \/ r.bad)
  /\ aborted' = r.threw
  /\ pc' = [pc EXCEPT ![t] = "idle"]
  /\ cur' = [cur EXCEPT ![t] = NoCur]
  /\ fresh' = IF cur[t].op = "copy_from" /\ fresh[b].st = "writing"
              THEN [fresh EXCEPT ![b] = IF r.threw THEN NoFresh
                                        ELSE [st |-> "valid", data |-> cur[t].src]]
              ELSE fresh
  /\ last' = [NoOp EXCEPT !.op = cur[t].op, !.h = cur[t].buf, !.data = cur[t].src,
                !.calls = Append(cur[t].calls, "plaidml_view_free"),
                !.errs = IF o.code # 0 THEN <<o.text>> ELSE <<>>,
                !.exc = r.exc,
                !.ret = IF r.threw THEN <<>> ELSE cur[t].dst]
  /\ UNCHANGED <<in, shapeRt, shapeUse, bufUse, bufShape>>

\* ------------------------------------------------------------ specifications
ShapeInputs ==
  {[dtype |-> d, sizes |-> sz, strides |-> st] :
     d \in {"INT8", "FLOAT32"},
     sz \in SeqsUpTo(0..MaxDim, MaxRank),
     st \in {[i \in 1..k |-> 1] : k \in 0..MaxRank} \cup {<<2, 1>>}}

MainInputs ==
  {[dtype |-> "INT8", sizes |-> <<MaxBytes, 1>>, strides |-> <<1, 1>>]}

InitShapes(ids) ==
  /\ shapeRt = [s \in ids |-> NoShape]
  /\ shapeUse = [s \in ids |-> 0]

InitViews(ids) ==
  /\ viewRt = [v \in ids |-> NoView]
  /\ viewUse = [v \in ids |-> 0]

InitThreads(ts) ==
  /\ pc = [t \in ts |-> "idle"]
  /\ cur = [t \in ts |-> NoCur]

InitHeld(ts) ==
  held = [t \in ts |-> [k \in PtrTypes |-> [h \in DOMAIN PtrUse(k) |-> 0]]]

InitBase ==
  /\ bufRt = [b \in BufIds |-> NoBuf]
  /\ strs = <<>>
  /\ badStr = FALSE
  /\ bufUse = [b \in BufIds |-> 0]
  /\ bufShape = [b \in BufIds |-> Null]
  /\ last = NoOp
  /\ fresh = [b \in BufIds |-> NoFresh]
  /\ aborted = FALSE

InitOther ==
  InitViews(ViewIds) /\ InitThreads(Threads) /\ InitBase /\ InitHeld(Threads)

InitRest == InitShapes(ShapeIds) /\ InitOther

Init == in \in MainInputs /\ InitRest

InitShape == in \in ShapeInputs /\ InitRest

NextShape0 ==
  /\ \E o \in Outcomes : TensorShape0(o)
  /\ UNCHANGED held
NextShape2 ==
  /\ \E o \in Outcomes : TensorShape2(in.dtype, in.sizes, o)
  /\ UNCHANGED held
NextShape3 ==
  /\ \E o \in Outcomes : TensorShape3(in.dtype, in.sizes, in.strides, o)
  /\ UNCHANGED held
NextShapeCopy ==
  /\ \E s \in ShapeIds : ShapeCopy(s)
  /\ UNCHANGED held
NextShapeDrop ==
  /\ \E s \in ShapeIds, o \in Outcomes : ShapeDrop(s, o)
  /\ UNCHANGED held
NextShapeNdims ==
  /\ \E s \in ShapeIds, o \in Outcomes : ShapeNdims(s, o)
  /\ UNCHANGED held

NextShapes ==
  \/ NextShape0
  \/ NextShape2
  \/ NextShape3
  \/ NextShapeCopy
  \/ NextShapeDrop
  \/ NextShapeNdims

NextBufferAlloc ==
  /\ \E s \in ShapeIds, o1 \in MainOutcomes, o2 \in MainOutcomes :
     BufferAlloc(s, o1, o2)
  /\ UNCHANGED held
NextBufferAdopt ==
  /\ \E s \in ShapeIds, nb \in 0..MaxBytes : BufferAdopt(s, nb)
  /\ UNCHANGED held
NextBufferCopy ==
  /\ \E b \in BufIds : BufferCopy(b)
  /\ UNCHANGED held
NextBufferDrop ==
  /\ \E b \in BufIds, o1 \in MainOutcomes, o2 \in MainOutcomes :
     BufferDrop(b, o1, o2)
  /\ UNCHANGED held
NextMmapCurrent ==
  /\ \E b \in BufIds, o \in MainOutcomes : MmapCurrent(b, o)
  /\ UNCHANGED held
NextMmapDiscard ==
  /\ \E b \in BufIds, o \in MainOutcomes : MmapDiscard(b, o)
  /\ UNCHANGED held
NextViewCopy ==
  /\ \E v \in ViewIds : ViewCopy(v)
  /\ UNCHANGED held
NextViewDrop ==
  /\ \E v \in ViewIds, o \in MainOutcomes, vis \in BOOLEAN : ViewDrop(v, o, vis)
  /\ UNCHANGED held
NextViewData ==
  /\ \E v \in ViewIds, o \in MainOutcomes : ViewData(v, o)
  /\ UNCHANGED held
NextViewSize ==
  /\ \E v \in ViewIds, o \in MainOutcomes : ViewSize(v, o)
  /\ UNCHANGED held
NextViewWriteback ==
  /\ \E v \in ViewIds, o \in MainOutcomes : ViewWriteback(v, o)
  /\ UNCHANGED held
NextCopyIntoBegin ==
  /\ \E t \in Threads, b \in BufIds, o \in MainOutcomes : CopyIntoBegin(t, b, o)
  /\ UNCHANGED held
NextCopyFromBegin ==
  /\ \E t \in Threads, b \in BufIds, o \in MainOutcomes : CopyFromBegin(t, b, o)
  /\ UNCHANGED held
NextCopyBody ==
  /\ \E t \in Threads, first \in {"plaidml_view_data", "plaidml_view_size"},
     o1 \in MainOutcomes, o2 \in MainOutcomes, o3 \in MainOutcomes, vis \in BOOLEAN :
     CopyBody(t, first, o1, o2, o3, vis)
  /\ UNCHANGED held
NextCopyWriteback ==
  /\ \E t \in Threads, o \in MainOutcomes, o2 \in MainOutcomes, vis \in BOOLEAN :
     CopyWriteback(t, o, o2, vis)
  /\ UNCHANGED held
NextCopyEnd ==
  /\ \E t \in Threads, o \in MainOutcomes, vis \in BOOLEAN : CopyEnd(t, o, vis)
  /\ UNCHANGED held

\* the shapes of the buffers (SpecShape has all their inputs and failures)
NextMainShape0 ==
  /\ \E o \in MainOutcomes : TensorShape0(o)
  /\ UNCHANGED held
NextMainShape2 ==
  /\ TensorShape2(in.dtype, in.sizes, Ok)
  /\ UNCHANGED held
NextMainShapeDrop ==
  /\ \E s \in ShapeIds, o \in MainOutcomes : ShapeDrop(s, o)
  /\ UNCHANGED held

Next ==
  \/ NextMainShape0
  \/ NextMainShape2
  \/ NextShapeCopy
  \/ NextMainShapeDrop
  \/ NextBufferAlloc
  \/ NextBufferAdopt
  \/ NextBufferCopy
  \/ NextBufferDrop
  \/ NextMmapCurrent
  \/ NextMmapDiscard
  \/ NextViewCopy
  \/ NextViewDrop
  \/ NextViewData
  \/ NextViewSize
  \/ NextViewWriteback
  \/ NextCopyIntoBegin
  \/ NextCopyFromBegin
  \/ NextCopyBody
  \/ NextCopyWriteback
  \/ NextCopyEnd

Spec == Init /\ [][Next]_vars

SpecShape == InitShape /\ [][NextShapes]_vars

\* two TensorShape values at a time, compared: the extents and strides are those
\* of `in`, the element type is chosen at each construction
EqShapeIds == 1..MaxEqShapes
EqDTypes == {"INT8", "FLOAT32"}
EqInputs ==
  {[dtype |-> "INT8", sizes |-> sz, strides |-> st] :
     sz \in SeqsUpTo(1..MaxEqDim, 2), st \in SeqsUpTo(1..MaxEqDim, 2)}

InitEq ==
  /\ in \in EqInputs
  /\ InitShapes(EqShapeIds)
  /\ InitOther

NextEqShape2 ==
  /\ \E d \in EqDTypes : TensorShape2(d, in.sizes, Ok)
  /\ UNCHANGED held
NextEqShape3 ==
  /\ \E d \in EqDTypes : TensorShape3(d, in.sizes, in.strides, Ok)
  /\ UNCHANGED held
NextEqShapeDrop ==
  /\ \E s \in EqShapeIds : ShapeDrop(s, Ok)
  /\ UNCHANGED held
NextEqStr ==
  /\ \E s \in EqShapeIds, o \in MainOutcomes : TensorShapeStr(s, o)
  /\ UNCHANGED held
NextEqEq ==
  /\ \E s1 \in EqShapeIds, s2 \in EqShapeIds, first \in {"lhs", "rhs"},
     o1 \in MainOutcomes, o2 \in MainOutcomes :
     ShapeEq(s1, s2, first, o1, o2)
  /\ UNCHANGED held

NextEq ==
  \/ NextEqShape2
  \/ NextEqShape3
  \/ NextEqShapeDrop
  \/ NextEqStr
  \/ NextEqEq

SpecEq == InitEq /\ [][NextEq]_vars

\* two threads in copy_into / copy_from of one Buffer, next to the views the
\* application maps itself; the runtime reports failures of the mapping calls only
MapViewIds == 1..MapViews
MapThreadIds == 1..MapThreads

InitMap ==
  /\ in \in MainInputs
  /\ InitShapes(ShapeIds)
  /\ InitViews(MapViewIds)
  /\ InitThreads(MapThreadIds)
  /\ InitBase
  /\ InitHeld(MapThreadIds)

NextMapShape ==
  /\ TensorShape2(in.dtype, in.sizes, Ok)
  /\ UNCHANGED held
NextMapBuffer ==
  /\ \E s \in ShapeIds : BufferAlloc(s, Ok, Ok)
  /\ UNCHANGED held
NextMapCurrent ==
  /\ \E b \in BufIds, o \in MainOutcomes : MmapCurrent(b, o)
  /\ UNCHANGED held
NextMapDiscard ==
  /\ \E b \in BufIds, o \in MainOutcomes : MmapDiscard(b, o)
  /\ UNCHANGED held
NextMapViewDrop ==
  /\ \E v \in MapViewIds, vis \in BOOLEAN : ViewDrop(v, Ok, vis)
  /\ UNCHANGED held
NextMapCopyIntoBegin ==
  /\ \E t \in MapThreadIds, b \in BufIds, o \in MainOutcomes : CopyIntoBegin(t, b, o)
  /\ UNCHANGED held
NextMapCopyFromBegin ==
  /\ \E t \in MapThreadIds, b \in BufIds, o \in MainOutcomes : CopyFromBegin(t, b, o)
  /\ UNCHANGED held
NextMapCopyBody ==
  /\ \E t \in MapThreadIds, first \in {"plaidml_view_data", "plaidml_view_size"} :
     CopyBody(t, first, Ok, Ok, Ok, FALSE)
  /\ UNCHANGED held
NextMapCopyWriteback ==
  /\ \E t \in MapThreadIds : CopyWriteback(t, Ok, Ok, FALSE)
  /\ UNCHANGED held
NextMapCopyEnd ==
  /\ \E t \in MapThreadIds, vis \in BOOLEAN : CopyEnd(t, Ok, vis)
  /\ UNCHANGED held

NextMap ==
  \/ NextMapShape
  \/ NextMapBuffer
  \/ NextMapCurrent
  \/ NextMapDiscard
  \/ NextMapViewDrop
  \/ NextMapCopyIntoBegin
  \/ NextMapCopyFromBegin
  \/ NextMapCopyBody
  \/ NextMapCopyWriteback
  \/ NextMapCopyEnd

SpecMap == InitMap /\ [][NextMap]_vars

\* threads that own copies of the same shape, buffer and view handle
SharedThreadIds == 1..SharedThreads

InitShared ==
  /\ in \in MainInputs
  /\ InitShapes(ShapeIds)
  /\ InitViews(ViewIds)
  /\ InitThreads(SharedThreadIds)
  /\ InitBase
  /\ InitHeld(SharedThreadIds)

NextSharedShape ==
  /\ pc[Creator] = "idle"
  /\ TensorShape0(Ok)
  /\ Gets(Creator, "plaidml_shape", NextShape)
NextSharedBuffer ==
  \E s \in ShapeIds :
    /\ pc[Creator] = "idle"
    /\ held[Creator]["plaidml_shape"][s] > 0
    /\ BufferAlloc(s, Ok, Ok)
    /\ held' = [held EXCEPT ![Creator]["plaidml_shape"][s] = @ + 1,
                            ![Creator]["plaidml_buffer"][NextBuf] = @ + 1]
NextSharedView ==
  \E b \in BufIds :
    /\ pc[Creator] = "idle"
    /\ held[Creator]["plaidml_buffer"][b] > 0
    /\ MmapCurrent(b, Ok)
    /\ Gets(Creator, "plaidml_view", NextView)
NextSharedCopy ==
  \E t \in SharedThreadIds, u \in SharedThreadIds, k \in PtrTypes :
    \E h \in DOMAIN PtrUse(k) : ThreadCopy(t, u, k, h)
NextSharedRelease ==
  \E t \in SharedThreadIds, k \in PtrTypes :
    \E h \in DOMAIN PtrUse(k) : ThreadRelease(t, k, h)
NextSharedDeleter ==
  \E t \in SharedThreadIds, o \in MainOutcomes : ThreadDeleter(t, o)

NextShared ==
  \/ NextSharedShape
  \/ NextSharedBuffer
  \/ NextSharedView
  \/ NextSharedCopy
  \/ NextSharedRelease
  \/ NextSharedDeleter

SpecShared == InitShared /\ [][NextShared]_vars

\* ------------------------------------------------------------------ claims
LiveView(v) == viewRt[v].alloc /\ viewRt[v].frees = 0
CopyOps == {"copy_into", "copy_from"}
Count(s, x) == Cardinality({i \in DOMAIN s : s[i] = x})
FilterSeq(s, S) == SelectSeq(s, LAMBDA x : x \in S)

\* C1: a handle wrapped by make_plaidml_shape / make_plaidml_buffer /
\* make_plaidml_view has had no release call while it has an owner, and exactly
\* one release call, on its own pointer, from the step on that drops its last
\* owner, whatever copies and drops were made.
C1_ReleasedExactlyOnce ==
  /\ \A s \in ShapeIds :
       shapeRt[s].alloc => shapeRt[s].frees = (IF shapeUse[s] > 0 THEN 0 ELSE 1)
  /\ \A b \in BufIds :
       bufRt[b].alloc => bufRt[b].frees = (IF bufUse[b] > 0 THEN 0 ELSE 1)
  /\ \A v \in ViewIds :
       viewRt[v].alloc => viewRt[v].frees = (IF viewUse[v] > 0 THEN 0 ELSE 1)

\* a Buffer value was destroyed as the last owner of its shape and of its buffer
C1_Witness ==
  /\ last.op = "~Buffer"
  /\ last.calls = <<"plaidml_shape_free", "plaidml_buffer_free">>
  /\ ~aborted

\* C2: plaidml_buffer_free is never called on a buffer while a View mapped from
\* it is live.
C2_ViewKeepsBufferAlive ==
  \A v \in ViewIds : LiveView(v) => bufRt[viewRt[v].buf].frees = 0

\* C3: a boundary call that reports a nonzero code with text X raises a failure
\* with text X and releases the message exactly once (no string is left, none is
\* released twice or without being there); a call that reports zero raises
\* nothing and returns the runtime's result, here the pointer that gets wrapped.
C3_ErrorBridge ==
  /\ strs = <<>>
  /\ ~badStr
  /\ last.errs # <<>> =>
       last.exc.type = "std::runtime_error" /\ last.exc.what = last.errs[1]
  /\ (last.errs = <<>> /\ last.calls = <<"plaidml_shape_alloc">>) =>
       /\ last.exc.type = "none"
       /\ Len(last.ret) = 1
       /\ shapeRt[last.ret[1]].alloc
       /\ shapeRt[last.ret[1]].frees = 0
       /\ shapeUse[last.ret[1]] = 1

\* plaidml_shape_alloc reported a nonzero code with the text "Y"
C3_Witness ==
  /\ last.calls = <<"plaidml_shape_alloc">>
  /\ last.errs = <<"Y">>
  /\ last.exc.what = "Y"

\* C4: a foreign operation that reports a nonzero code, a release function
\* included, ends in a failure raised to the caller, never in an abort of the
\* process.
C4_ForeignErrorsSurface ==
  last.errs # <<>> => (~aborted /\ last.exc.what = last.errs[1])

\* the type of the failures ffi::call raises
BoundaryErrorType == FfiCall(Fail("X"), <<>>, <<>>).exc.type

\* C5 as claimed: extents and strides of differing lengths fail with an error
\* of a type other than the boundary failures', before any foreign call.
C5_ShapeErrorDistinct ==
  (last.op = "TensorShape(dtype,sizes,strides)"
     /\ Len(last.in.sizes) # Len(last.in.strides)) =>
    /\ last.exc.type # "none"
    /\ last.exc.type # BoundaryErrorType
    /\ last.calls = <<>>

\* C5 as amended: extents and strides of differing lengths fail with a
\* std::runtime_error, the type of the boundary failures, with the text "Sizes
\* and strides must have the same rank."; no foreign call is made, and no shape
\* handle is created or released.
C5_RankMismatchBeforeForeignCall ==
  [][(last'.op = "TensorShape(dtype,sizes,strides)"
        /\ Len(last'.in.sizes) # Len(last'.in.strides)) =>
       /\ last'.exc.type = "std::runtime_error"
       /\ last'.exc.what = "Sizes and strides must have the same rank."
       /\ last'.calls = <<>>
       /\ UNCHANGED <<shapeRt, shapeUse, strs, badStr>>]_vars

\* the constructor was given three extents and fewer strides, and failed
C5_Witness ==
  /\ last.op = "TensorShape(dtype,sizes,strides)"
  /\ Len(last.in.sizes) = 3
  /\ Len(last.in.strides) < 3
  /\ last.exc.type = "std::runtime_error"

\* C6: a copy_into that follows a copy_from(P) of the same buffer, with no other
\* mapping of the buffer since that copy_from began, yields P.
C6_RoundTrip ==
  (last.op = "copy_into" /\ last.exc.type = "none" /\ Len(last.calls) > 1
     /\ fresh[last.h].st = "valid") =>
    last.ret = fresh[last.h].data

\* a payload with a nonzero byte came back
C6_Witness ==
  /\ last.op = "copy_into"
  /\ last.exc.type = "none"
  /\ last.h \in BufIds
  /\ fresh[last.h].st = "valid"
  /\ last.ret = fresh[last.h].data
  /\ \E i \in DOMAIN last.ret : last.ret[i] = 1

\* size() returned, for a view of a buffer that a Buffer value still holds
SizeReturned(b) ==
  /\ last.op = "size"
  /\ last.exc.type = "none"
  /\ LiveView(last.h)
  /\ viewRt[last.h].buf = b
  /\ bufUse[b] > 0

\* plaidml_buffer_alloc was called with the nbytes() of the constructor's shape
AllocRequestsShapeBytes ==
  (last.op = "Buffer(device,shape)" /\ Len(last.calls) = 2) =>
    last.nbytes = RtShapeNbytes(shapeRt[last.h])

\* C7 as claimed: for a Buffer of either constructor, size() of a View mapped
\* from it is the nbytes() of the Buffer's shape.
C7_ViewSizeIsShapeBytes ==
  /\ \A b \in BufIds :
       SizeReturned(b) => last.ret = <<RtShapeNbytes(shapeRt[bufShape[b]])>>
  /\ AllocRequestsShapeBytes

\* C7 as amended: that holds for a Buffer of the allocate constructor; for a
\* Buffer of the adopt constructor size() is the byte size of the adopted buffer.
C7_ViewSizeIsAllocatedBytes ==
  /\ \A b \in BufIds :
       SizeReturned(b) =>
         IF bufRt[b].origin = "alloc"
         THEN last.ret = <<RtShapeNbytes(shapeRt[bufShape[b]])>>
         ELSE last.ret = <<bufRt[b].size>>
  /\ AllocRequestsShapeBytes

\* size() returned the bytes of an allocated buffer
C7_Witness ==
  \E b \in BufIds :
    /\ SizeReturned(b)
    /\ bufRt[b].origin = "alloc"
    /\ last.ret = <<MaxBytes>>

\* C8: a view has exactly one plaidml_view_free call once its last owner is
\* gone and none before; a view opened by copy_into / copy_from is live only
\* while that call runs; and a copy_into / copy_from that opened a view ends,
\* on every path, with the one plaidml_view_free of it.
C8_ViewsAlwaysUnmapped ==
  /\ \A v \in ViewIds :
       viewRt[v].alloc =>
         /\ viewRt[v].frees <= 1
         /\ (viewRt[v].frees = 1) = (viewUse[v] = 0)
         /\ (viewRt[v].opener \in CopyOps /\ viewRt[v].frees = 0) =>
              \E t \in Threads : pc[t] # "idle" /\ cur[t].view = v
  /\ (last.op \in CopyOps /\ Len(last.calls) > 1) =>
       /\ last.calls[Len(last.calls)] = "plaidml_view_free"
       /\ Count(last.calls, "plaidml_view_free") = 1

\* writeback() failed inside copy_from, and the failure reached the caller
C8_Witness ==
  /\ last.op = "copy_from"
  /\ Len(last.calls) > 1
  /\ last.calls[Len(last.calls) - 1] = "plaidml_view_writeback"
  /\ last.errs = <<"X">>
  /\ ~aborted
  /\ \A v \in ViewIds : ~LiveView(v)

CopyFromSteps ==
  {"plaidml_buffer_mmap_current", "plaidml_buffer_mmap_discard", "memcpy",
   "plaidml_view_writeback", "plaidml_view_free"}

\* C9: a copy_from that returns has opened a discard-mode view, copied the
\* bytes, committed and released the view, in this order and once each.
C9_CopyFromOrder ==
  (last.op = "copy_from" /\ last.exc.type = "none") =>
    FilterSeq(last.calls, CopyFromSteps) =
      <<"plaidml_buffer_mmap_discard", "memcpy", "plaidml_view_writeback",
        "plaidml_view_free">>

\* a copy_from returned
C9_Witness ==
  /\ last.op = "copy_from"
  /\ last.exc.type = "none"
  /\ last.data # <<>>
  /\ ~aborted

\* C10: the strides TensorShape(dtype, sizes) passes to plaidml_shape_alloc are
\* as many as the extents; the last is 1 and each other one is the next stride
\* times the next extent.
C10_RowMajorStrides ==
  last.op = "TensorShape(dtype,sizes)" =>
    LET sz == last.in.sizes
        st == last.alloc.strides
        r == Len(sz) IN
    /\ Len(st) = r
    /\ r >= 1 => st[r] = 1
    /\ \A i \in 1..(r - 1) : st[i] = st[i + 1] * sz[i + 1]

\* three extents, the inner two equal to 2
C10_Witness ==
  /\ last.op = "TensorShape(dtype,sizes)"
  /\ Len(last.in.sizes) = 3
  /\ last.alloc.strides = <<4, 2, 1>>

\* the constructors of TensorShape that reach plaidml_shape_alloc
ShapeCtors ==
  {"TensorShape()", "TensorShape(dtype,sizes)", "TensorShape(dtype,sizes,strides)"}

\* what a constructor asked of plaidml_shape_alloc, and what ndims() reports
RankAsRequested ==
  /\ (last.op \in ShapeCtors /\ last.calls # <<>>) =>
       /\ last.alloc.ndims = Len(last.in.sizes)
       /\ Len(last.alloc.sizes) = last.alloc.ndims
       /\ Len(last.alloc.strides) = last.alloc.ndims
  /\ last.op = "TensorShape()" =>
       last.alloc = [dtype |-> "INVALID", ndims |-> 0, sizes |-> <<>>, strides |-> <<>>]
  /\ (last.op \in ShapeCtors /\ last.calls # <<>> /\ last.exc.type = "none") =>
       /\ shapeRt[last.ret[1]].ndims = Len(last.in.sizes)
       /\ Len(shapeRt[last.ret[1]].sizes) = Len(shapeRt[last.ret[1]].strides)
  /\ (last.op = "ndims" /\ last.exc.type = "none") =>
       last.ret = <<Len(shapeRt[last.h].sizes)>>

\* C11: a TensorShape constructor requests a rank equal to the number of
\* extents, with as many strides as extents; TensorShape() requests INVALID,
\* rank 0, no extents and no strides; ndims() reports that rank; and no step
\* changes the rank, extents or strides of a shape that keeps an owner.
C11_RankFixedAtConstruction ==
  [][/\ RankAsRequested'
     /\ \A s \in ShapeIds :
          (shapeUse[s] > 0 /\ shapeUse'[s] > 0) =>
            /\ shapeRt'[s].ndims = shapeRt[s].ndims
            /\ shapeRt'[s].sizes = shapeRt[s].sizes
            /\ shapeRt'[s].strides = shapeRt[s].strides]_vars

\* ndims() of a shape built from three extents returned 3
C11_Witness ==
  /\ last.op = "ndims"
  /\ last.exc.type = "none"
  /\ last.ret = <<3>>
  /\ Len(in.sizes) = 3

\* built from the same element type, extents and strides
SameBuild(a, b) == a.dtype = b.dtype /\ a.sizes = b.sizes /\ a.strides = b.strides

\* C12: operator== returns whether the two texts the runtime gives for the
\* operands are equal: TRUE for two shapes built from the same element type,
\* extents and strides, FALSE when only the element type differs; the texts'
\* string handles are released.
C12_EqualityIsTextual ==
  /\ strs = <<>>
  /\ ~badStr
  /\ (last.op = "operator==" /\ last.exc.type = "none") =>
       LET a == shapeRt[last.args[1]]
           b == shapeRt[last.args[2]] IN
       /\ last.ret = <<RtShapeRepr(a) = RtShapeRepr(b)>>
       /\ SameBuild(a, b) => last.ret = <<TRUE>>
       /\ (a.dtype # b.dtype /\ a.sizes = b.sizes /\ a.strides = b.strides) =>
            last.ret = <<FALSE>>

\* two distinct handles built from the same inputs compared equal
C12_Witness ==
  /\ last.op = "operator=="
  /\ last.exc.type = "none"
  /\ last.args[1] # last.args[2]
  /\ SameBuild(shapeRt[last.args[1]], shapeRt[last.args[2]])
  /\ Len(shapeRt[last.args[1]].sizes) = 2
  /\ last.ret = <<TRUE>>

MapOps == {"mmap_current", "mmap_discard", "copy_into", "copy_from"}

\* C13: the wrapper neither blocks nor rejects a mapping because the buffer
\* has a live view: whenever the runtime has a view to hand out, mmap_current,
\* mmap_discard, copy_into and copy_from of a held buffer can run, whatever
\* views of the buffer are live, and a mapping operation fails only with an
\* error the runtime reported.
C13_MappingIsUnguarded ==
  /\ \A b \in BufIds :
       (~aborted /\ bufUse[b] > 0 /\ NextView # Null) =>
         /\ ENABLED MmapCurrent(b, Ok)
         /\ ENABLED MmapDiscard(b, Ok)
         /\ \A t \in DOMAIN pc :
              pc[t] = "idle" =>
                /\ ENABLED CopyIntoBegin(t, b, Ok)
                /\ ENABLED CopyFromBegin(t, b, Ok)
  /\ (last.op \in MapOps /\ last.errs = <<>>) => last.exc.type = "none"

\* two threads are inside copy_into / copy_from of the same buffer, each with
\* its own live view
C13_Witness ==
  \E t \in DOMAIN pc, u \in DOMAIN pc :
    /\ t # u
    /\ pc[t] # "idle"
    /\ pc[u] # "idle"
    /\ cur[t].buf = cur[u].buf
    /\ cur[t].view # cur[u].view
    /\ LiveView(cur[t].view)
    /\ LiveView(cur[u].view)
    /\ viewRt[cur[t].view].buf = viewRt[cur[u].view].buf

\* the shared_ptr values all threads own for handle h of pointer type k, and
\* the threads that are about to run its deleter
HeldByAll(k, h) == SumOver(DOMAIN held, [t \in DOMAIN held |-> held[t][k][h]])
Deleting(k, h) ==
  {t \in DOMAIN pc : pc[t] = "deleter" /\ cur[t].op = k /\ cur[t].ptr = h}

\* C14: with the copies of a shape, buffer or view handle copied and dropped by
\* different threads in any interleaving, the handle is released at most once,
\* only when no thread owns a copy any more, by one thread only, and it is
\* released once every copy is dropped and that thread has run the deleter.
C14_SharedAcrossThreads ==
  \A k \in PtrTypes : \A h \in DOMAIN PtrRt(k) :
    PtrRt(k)[h].alloc =>
      /\ PtrRt(k)[h].frees <= 1
      /\ PtrRt(k)[h].frees = 1 => (HeldByAll(k, h) = 0 /\ Deleting(k, h) = {})
      /\ Deleting(k, h) # {} => HeldByAll(k, h) = 0
      /\ Cardinality(Deleting(k, h)) <= 1
      /\ (HeldByAll(k, h) = 0 /\ Deleting(k, h) = {}) => PtrRt(k)[h].frees = 1

\* a thread other than the one that constructed the Buffer ran
\* plaidml_buffer_free: it got a copy, and the constructing thread dropped its
\* own first
C14_Witness ==
  /\ last.op = "Deleter"
  /\ last.calls = <<"plaidml_buffer_free">>
  /\ last.args # <<Creator>>
  /\ bufRt[last.h].frees = 1
  /\ ~aborted

\* the foreign calls that hand out a pointer for the wrapper to own
AcquireFns ==
  {"plaidml_shape_alloc", "plaidml_buffer_alloc", "plaidml_buffer_mmap_current",
   "plaidml_buffer_mmap_discard"}

\* every owned pointer is a live object the runtime handed out (or the caller
\* adopted), and every pointer given to a release function was one
OwnedWereHandedOut ==
  /\ \A s \in ShapeIds :
       /\ shapeUse[s] > 0 => (shapeRt[s].alloc /\ shapeRt[s].frees = 0)
       /\ shapeRt[s].frees > 0 => shapeRt[s].alloc
  /\ \A b \in BufIds :
       /\ bufUse[b] > 0 => (bufRt[b].alloc /\ bufRt[b].frees = 0)
       /\ bufRt[b].frees > 0 => bufRt[b].alloc
  /\ \A v \in ViewIds :
       /\ viewUse[v] > 0 => (viewRt[v].alloc /\ viewRt[v].frees = 0)
       /\ viewRt[v].frees > 0 => viewRt[v].alloc

\* C15: the step of an operation that ends with an allocate or map call
\* reporting a nonzero code raises the failure and creates no owner, creates no
\* object and releases nothing; and at all times the pointers owned, and the
\* pointers given to a release function, are pointers a successful allocate or
\* map call returned or the adopt constructor was given.
C15_NoHandleOnFailure ==
  [][/\ OwnedWereHandedOut'
     /\ (last' # last /\ last'.errs # <<>> /\ last'.calls # <<>>
           /\ last'.calls[Len(last'.calls)] \in AcquireFns) =>
          /\ last'.exc.type = "std::runtime_error"
          /\ UNCHANGED <<shapeUse, bufUse, viewUse, shapeRt, bufRt, viewRt, bufShape,
                         pc, cur>>]_vars

\* plaidml_buffer_alloc failed and there is no buffer, owned or allocated
C15_Witness ==
  /\ last.op = "Buffer(device,shape)"
  /\ Len(last.calls) = 2
  /\ last.errs = <<"X">>
  /\ \A b \in BufIds : bufUse[b] = 0 /\ ~bufRt[b].alloc

\* C16: no step of copy_into changes the content of a buffer; the calls
\* copy_into made are one plaidml_buffer_mmap_current, reads of the view's
\* address and size, never plaidml_view_writeback nor
\* plaidml_buffer_mmap_discard, and its view is released before it returns.
C16_CopyIntoReadsOnly ==
  [][/\ \A t \in DOMAIN pc :
          (pc'[t] # pc[t] /\ (cur[t].op = "copy_into" \/ cur'[t].op = "copy_into")) =>
            /\ \A b \in DOMAIN bufRt : bufRt'[b].content = bufRt[b].content
            /\ (pc'[t] = "idle" =>
                  /\ viewUse'[cur[t].view] = 0
                  /\ viewRt'[cur[t].view].frees = 1
                  /\ last'.calls[Len(last'.calls)] = "plaidml_view_free")
     /\ (last' # last /\ last'.op = "copy_into") =>
          /\ bufRt' = bufRt
          /\ last'.calls[1] = "plaidml_buffer_mmap_current"
          /\ \A i \in 2..Len(last'.calls) :
               last'.calls[i] \in {"plaidml_view_data", "plaidml_view_size", "memcpy",
                                   "plaidml_view_free"}]_vars

\* copy_into returned the bytes of a buffer that holds something other than
\* zeroes, and the buffer still holds them
C16_Witness ==
  /\ last.op = "copy_into"
  /\ last.exc.type = "none"
  /\ last.ret # <<>>
  /\ \E i \in 1..Len(last.ret) : last.ret[i] # 0
  /\ bufRt[last.h].content = last.ret

====
